---------------------------- MODULE Spec2Model ----------------------------
(***************************************************************************)
(* Model of src/src/gamma/client.rs: the Gamma API client.                 *)
(*                                                                         *)
(*   Client::new, Default   construction (default headers, host URL parse) *)
(*   Client::request        the generic request/response pipeline          *)
(*   Client::teams ... Client::related_tags_by_slug   the ten accessors    *)
(*                                                                         *)
(* Text is modelled as a sequence of lexemes, so that URL parsing, URL     *)
(* display, query building and JSON parsing are computed rather than       *)
(* assumed.  A lexeme is one of the characters                             *)
(*     :  /  \  ?  #  &  =  +  .  {  and the space,                        *)
(* a decimal numeral from 0 to 255, a percent-escape of one of those       *)
(* characters (escaped again up to MaxEscapeDepth times), or a word:       *)
(* letters and hyphens, lower-case unless Lower names it, with an          *)
(* underscore only in the words of UnderscoreWords.  The text a sequence   *)
(* spells is the concatenation of its lexemes.  The words do not spell     *)
(* the scheme "file", and the texts hold no "@", "[" or "%" of their own.  *)
(*                                                                         *)
(* Option<T> is a sequence of length 0 (None) or 1 (Some).  The generic    *)
(* Response type of the pipeline is instantiated at a 32-bit signed        *)
(* integer.                                                                *)
(***************************************************************************)
EXTENDS Naturals, Sequences, FiniteSets, TLC

VARIABLES
    ctor,       \* the constructor called: "none", "new" or "default"
    newArg,     \* Option<host string> handed to Client::new
    transport,  \* outcome of ReqwestClient::builder()...build(): "none", "built", "failed"
    newResult,  \* result of Client::new (Pending before the call)
    client,     \* Option<Client>: the constructed client (host, default headers)
    calls       \* per call of the pipeline: its locals and its position

vars == <<ctor, newArg, transport, newResult, client, calls>>

None == <<>>
Some(x) == <<x>>
IsSome(o) == Len(o) = 1

--------------------------------------------------------------------------
(* Text helpers                                                            *)

RECURSIVE IndexOfAny(_, _, _)
\* Position of the first lexeme of s at or after i that is in set D; Len(s)+1 if none.
IndexOfAny(s, D, i) ==
    IF i > Len(s) THEN Len(s) + 1
    ELSE IF s[i] \in D THEN i
    ELSE IndexOfAny(s, D, i + 1)

Slice(s, i, j) == IF i > j THEN <<>> ELSE SubSeq(s, i, j)

RECURSIVE Split(_, _)
\* The non-empty pieces of s between the lexemes d, in order
\* (form_urlencoded::Parse::next skips an empty piece).
Split(s, d) ==
    LET k     == IndexOfAny(s, {d}, 1)
        first == Slice(s, 1, k - 1)
        head  == IF first = <<>> THEN <<>> ELSE <<first>>
    IN  IF k > Len(s) THEN head
        ELSE head \o Split(Slice(s, k + 1, Len(s)), d)

RECURSIVE SplitKeep(_, _)
\* The pieces of s between the lexemes of D, the empty ones included
\* (str::split): one piece more than there are separators.
SplitKeep(s, D) ==
    LET k == IndexOfAny(s, D, 1)
    IN  IF k > Len(s) THEN <<s>>
        ELSE <<Slice(s, 1, k - 1)>> \o SplitKeep(Slice(s, k + 1, Len(s)), D)

RECURSIVE Squeeze(_)
\* The text without its empty lexemes, which spell nothing.
Squeeze(s) ==
    IF s = <<>> THEN <<>>
    ELSE IF s[1] = "" THEN Squeeze(Tail(s))
    ELSE <<s[1]>> \o Squeeze(Tail(s))

RECURSIVE Concat(_)
\* The string a sequence of lexemes spells.
Concat(s) == IF s = <<>> THEN "" ELSE s[1] \o Concat(Tail(s))

--------------------------------------------------------------------------
(* The lexemes texts are spelled with                                      *)

Delimiters == {":", "/", "\\", "?", "#", "&", "="}

\* The decimal numerals.
Numerals == {ToString(n) : n \in 0..255}

NumeralValue(t) == CHOOSE n \in 0..255 : ToString(n) = t

\* The decimal digits of a number below 1000.
DigitsOfNumber(n) ==
    IF n < 10 THEN <<n>>
    ELSE IF n < 100 THEN <<n \div 10, n % 10>>
    ELSE <<n \div 100, (n \div 10) % 10, n % 10>>

\* The words that are hexadecimal digits.
HexLetters == {"a", "b", "f"}

\* The characters of a lexeme made of digits (decimal or hexadecimal), as
\* numbers; <<>> for every other lexeme.
DigitsOf(t) ==
    IF t \in Numerals THEN DigitsOfNumber(NumeralValue(t))
    ELSE CASE t = "a" -> <<10>>
           [] t = "b" -> <<11>>
           [] t = "f" -> <<15>>
           [] OTHER   -> <<>>

RECURSIVE FlattenDigits(_)
FlattenDigits(s) ==
    IF s = <<>> THEN <<>> ELSE DigitsOf(s[1]) \o FlattenDigits(Tail(s))

\* The characters the encoders escape, with the two hexadecimal digits of
\* each.
EscapedChars == {" ", "{", "/", "?", "#", "&", "=", "+", ":", "\\"}

HexCode(c) ==
    CASE c = " "  -> "20"
      [] c = "{"  -> "7B"
      [] c = "/"  -> "2F"
      [] c = "?"  -> "3F"
      [] c = "#"  -> "23"
      [] c = "&"  -> "26"
      [] c = "="  -> "3D"
      [] c = "+"  -> "2B"
      [] c = ":"  -> "3A"
      [] c = "\\" -> "5C"

\* How many times over the texts hold an escape escaped again.
MaxEscapeDepth == 2

RECURSIVE Rep25(_)
Rep25(n) == IF n = 0 THEN "" ELSE "25" \o Rep25(n - 1)

\* The escape of character c whose percent sign was escaped n times over:
\* "%7B", "%257B", "%25257B", ...
EscapeOf(c, n) == "%" \o Rep25(n) \o HexCode(c)

EscapeTable ==
    {[text |-> EscapeOf(c, n), char |-> c, depth |-> n] :
        c \in EscapedChars, n \in 0..MaxEscapeDepth}

\* Percent-escapes, as the encoders write them.
Escapes == {e.text : e \in EscapeTable}

EscapeEntry(t) == CHOOSE e \in EscapeTable : e.text = t

\* Words with an underscore.
UnderscoreWords == {"include_template"}

\* A word: letters and hyphens (and the underscore of UnderscoreWords).
IsWord(t) ==
    t \notin Delimiters \cup Numerals \cup Escapes \cup {"", " ", "{", "+", "."}

\* ASCII lower-casing, applied to the scheme and to the host of a special
\* scheme.
Lower(t) ==
    CASE t = "HTTPS" -> "https"
      [] t = "HTTP"  -> "http"
      [] t = "FTP"   -> "ftp"
      [] t = "H"     -> "h"
      [] OTHER       -> t

\* percent_decode of one lexeme: an escape gives its character, an escape
\* escaped again gives the escape one level down.
PercentDecode(t) ==
    IF t \notin Escapes THEN t
    ELSE IF EscapeEntry(t).depth = 0 THEN EscapeEntry(t).char
    ELSE EscapeOf(EscapeEntry(t).char, EscapeEntry(t).depth - 1)

\* The path percent-encode set: of the lexemes, the space and the brace.
PathEncode(t) ==
    CASE t = " " -> "%20"
      [] t = "{" -> "%7B"
      [] OTHER   -> t

\* The query and the fragment percent-encode sets: of the lexemes, the space.
QueryEncode(t) == IF t = " " THEN "%20" ELSE t

\* form_urlencoded::byte_serialize of one lexeme: letters, digits, "*",
\* "-", "." and "_" are kept, a space is "+", every other byte is escaped,
\* the percent sign of an escape included.
FormEncode(t) ==
    IF t = " " THEN "+"
    ELSE IF t \in EscapedChars THEN EscapeOf(t, 0)
    ELSE IF t \in Escapes
    THEN EscapeOf(EscapeEntry(t).char, EscapeEntry(t).depth + 1)
    ELSE t

\* form_urlencoded decoding of one lexeme: "+" is a space, escapes are
\* decoded.
FormDecode(t) == IF t = "+" THEN " " ELSE PercentDecode(t)

\* Each of the above applied along a text.
LowerText(s) == [i \in 1..Len(s) |-> Lower(s[i])]
PercentDecodeText(s) == [i \in 1..Len(s) |-> PercentDecode(s[i])]
PathEncodeText(s) == [i \in 1..Len(s) |-> PathEncode(s[i])]
QueryEncodeText(s) == [i \in 1..Len(s) |-> QueryEncode(s[i])]
FormDecodeText(s) == [i \in 1..Len(s) |-> FormDecode(s[i])]

--------------------------------------------------------------------------
(* url::Url, as Url::parse builds it and Display writes it                 *)

\* A lexeme a scheme can hold: letters, digits, "+", "-" and ".".
IsSchemeLexeme(t) ==
    \/ IsWord(t) /\ t \notin UnderscoreWords
    \/ t \in Numerals \cup {"+", "."}

\* A scheme starts with a letter.
IsSchemeStart(t) == IsWord(t) /\ t \notin UnderscoreWords

\* The schemes the parser treats as special ("file", the sixth, is not
\* among the words of the texts).
SpecialSchemes == {"http", "https", "ws", "wss", "ftp"}

\* parser::default_port, as the digits of the port.
DefaultPort(scheme) ==
    CASE scheme \in {"http", "ws"}   -> <<8, 0>>
      [] scheme \in {"https", "wss"} -> <<4, 4, 3>>
      [] scheme = "ftp"              -> <<2, 1>>
      [] OTHER                       -> <<>>

\* slashes: the serialisation has "//" after the scheme (an authority);
\* host: the host as serialised; port: the digits of the port, <<>> for
\* none; path: the path as serialised (Url::path).
NoUrl == [scheme |-> "", slashes |-> FALSE, host |-> <<>>, port |-> <<>>,
          path |-> <<>>, query |-> None, fragment |-> None]

UrlError(e) == [ok |-> FALSE, url |-> NoUrl, err |-> e]

RECURSIVE SkipSlashes(_, _)
\* Position of the first lexeme at or after i that is neither "/" nor "\".
SkipSlashes(s, i) ==
    IF i <= Len(s) /\ s[i] \in {"/", "\\"} THEN SkipSlashes(s, i + 1) ELSE i

RECURSIVE SkipSpaces(_, _)
SkipSpaces(s, i) ==
    IF i <= Len(s) /\ s[i] = " " THEN SkipSpaces(s, i + 1) ELSE i

RECURSIVE SkipSpacesBack(_, _)
SkipSpacesBack(s, j) ==
    IF j >= 1 /\ s[j] = " " THEN SkipSpacesBack(s, j - 1) ELSE j

\* Leading and trailing spaces are stripped from the input of the parser.
Trim(s) == Slice(s, SkipSpaces(s, 1), SkipSpacesBack(s, Len(s)))

RECURSIVE SchemeEnd(_, _)
\* Position of the first lexeme at or after i that cannot be in a scheme.
SchemeEnd(s, i) ==
    IF i <= Len(s) /\ IsSchemeLexeme(s[i]) THEN SchemeEnd(s, i + 1) ELSE i

RECURSIVE Accumulate(_, _, _, _)
\* The number whose digits ds are read in the given radix, as the pair
\* (hi, lo) of its 16-bit halves; ok is FALSE when it does not fit 32 bits.
Accumulate(ds, radix, hi, lo) ==
    IF ds = <<>> THEN [ok |-> TRUE, hi |-> hi, lo |-> lo]
    ELSE LET l == lo * radix + ds[1]
             h == hi * radix + (l \div 65536)
         IN  IF h >= 65536 THEN [ok |-> FALSE, hi |-> 0, lo |-> 0]
             ELSE Accumulate(Tail(ds), radix, h, l % 65536)

\* parse_ipv4number of one label of the host: [valid, ok, hi, lo].  An
\* empty label is no number; "0x" introduces a hexadecimal number, whose
\* digits may be none; a leading "0" before further digits an octal one;
\* a digit the radix does not have is invalid; a number that does not fit
\* 32 bits is valid and not ok.
Ipv4Number(l) ==
    LET ds   == FlattenDigits(l)
        hex  == Slice(l, 3, Len(l))
        bad  == [valid |-> FALSE, ok |-> FALSE, hi |-> 0, lo |-> 0]
        Of(n) == [valid |-> TRUE, ok |-> n.ok, hi |-> n.hi, lo |-> n.lo]
    IN  IF l = <<>> THEN bad
        ELSE IF Len(l) >= 2 /\ l[1] = "0" /\ l[2] = "x"
        THEN IF \A i \in 1..Len(hex) : hex[i] \in Numerals \cup HexLetters
             THEN Of(Accumulate(FlattenDigits(hex), 16, 0, 0))
             ELSE bad
        ELSE IF \E i \in 1..Len(l) : l[i] \notin Numerals THEN bad
        ELSE IF Len(ds) >= 2 /\ ds[1] = 0
        THEN IF \A i \in 2..Len(ds) : ds[i] < 8
             THEN Of(Accumulate(Tail(ds), 8, 0, 0))
             ELSE bad
        ELSE Of(Accumulate(ds, 10, 0, 0))

\* ends_in_a_number: the last label of the host (the one before it when
\* the host ends with a dot) is all digits or parses as a number.
EndsInANumber(labels) ==
    LET n    == Len(labels)
        last == IF labels[n] # <<>> THEN labels[n]
                ELSE IF n >= 2 THEN labels[n - 1] ELSE <<>>
    IN  /\ last # <<>>
        /\ \/ \A i \in 1..Len(last) : last[i] \in Numerals
           \/ Ipv4Number(last).valid

\* The address of the numbers nums, none of them invalid or too large:
\* each but the last is below 256 and the last fills the bytes that remain.
Ipv4OfNumbers(nums, bytes) ==
    IF \E i \in 1..(Len(nums) - 1) : nums[i].hi # 0 \/ nums[i].lo > 255
    THEN [ok |-> FALSE, octets |-> <<>>]
    ELSE IF \E i \in 1..(Len(nums) - 1) : bytes[i] # 0
    THEN [ok |-> FALSE, octets |-> <<>>]
    ELSE [ok     |-> TRUE,
          octets |-> [i \in 1..4 |->
                        IF i < Len(nums) THEN nums[i].lo ELSE bytes[i]]]

\* The four bytes of a number of 32 bits.
BytesOf(n) == <<n.hi \div 256, n.hi % 256, n.lo \div 256, n.lo % 256>>

\* The address of the parts of a host, each parsed as a number.
Ipv4OfParts(nums) ==
    IF Len(nums) = 0 \/ Len(nums) > 4 THEN [ok |-> FALSE, octets |-> <<>>]
    ELSE IF \E i \in 1..Len(nums) : ~nums[i].valid \/ ~nums[i].ok
    THEN [ok |-> FALSE, octets |-> <<>>]
    ELSE Ipv4OfNumbers(nums, BytesOf(nums[Len(nums)]))

\* parse_ipv4addr: [ok, octets].  One trailing empty label is dropped; at
\* most four numbers.
Ipv4Addr(labels) ==
    Ipv4OfParts([i \in 1..(IF labels[Len(labels)] = <<>>
                           THEN Len(labels) - 1 ELSE Len(labels)) |->
                    Ipv4Number(labels[i])])

\* impl Display for Ipv4Addr
Ipv4Text(o) ==
    <<ToString(o[1]), ".", ToString(o[2]), ".", ToString(o[3]), ".",
      ToString(o[4])>>

\* Characters no host may hold.
HostForbidden == {" ", "/", "?", "#", ":", "\\"}

\* The host an address is, or the error of a host that ends in a number
\* and is no address.
Ipv4Host(a) ==
    IF a.ok THEN [ok |-> TRUE, host |-> Ipv4Text(a.octets), err |-> ""]
    ELSE [ok |-> FALSE, host |-> <<>>, err |-> "InvalidIpv4Address"]

\* A host that ends in a number is an IPv4 address; any other is a domain.
HostOfLabels(low, labels) ==
    IF EndsInANumber(labels) THEN Ipv4Host(Ipv4Addr(labels))
    ELSE [ok |-> TRUE, host |-> low, err |-> ""]

\* The percent-decoded host: refused when it holds a forbidden character
\* or a percent sign, or nothing; lower-cased.
DecodedHost(dec) ==
    IF \E i \in 1..Len(dec) : dec[i] \in HostForbidden \cup Escapes
    THEN [ok |-> FALSE, host |-> <<>>, err |-> "IdnaError"]
    ELSE IF dec = <<>>
    THEN [ok |-> FALSE, host |-> <<>>, err |-> "EmptyHost"]
    ELSE HostOfLabels(LowerText(dec), SplitKeep(LowerText(dec), {"."}))

\* Host::parse, the host of a special scheme: percent-decoded once, then
\* checked, lower-cased and classified.
SpecialHost(raw) == DecodedHost(PercentDecodeText(raw))

\* Host::parse_opaque, the host of any other scheme: kept as written,
\* escapes included, refused when it holds a forbidden character.
OpaqueHost(raw) ==
    IF \E i \in 1..Len(raw) : raw[i] \in HostForbidden
    THEN [ok |-> FALSE, host |-> <<>>, err |-> "InvalidDomainCharacter"]
    ELSE [ok |-> TRUE, host |-> raw, err |-> ""]

RECURSIVE PortDigits(_, _)
\* The digits ds without the leading zeros (all of them when keep is set).
PortDigits(ds, keep) ==
    IF ds = <<>> THEN <<>>
    ELSE IF ds[1] = 0 /\ ~keep THEN PortDigits(Tail(ds), FALSE)
    ELSE <<ds[1]>> \o PortDigits(Tail(ds), TRUE)

RECURSIVE DecimalValue(_, _)
\* The number the decimal digits ds spell, after the value acc.
DecimalValue(ds, acc) ==
    IF ds = <<>> THEN acc ELSE DecimalValue(Tail(ds), acc * 10 + ds[1])

\* parse_port of the text between the ":" that ends the host and the next
\* "/", "\", "?" or "#": [ok, port].  Anything but digits and a number
\* above 65535 are refused; no digits and the default port of the scheme
\* are no port.
ParsePort(scheme, text) ==
    LET ds  == PortDigits(FlattenDigits(text), FALSE)
        num == IF ds = <<>> THEN <<0>> ELSE ds
    IN  IF \E i \in 1..Len(text) : text[i] \notin Numerals
        THEN [ok |-> FALSE, port |-> <<>>]
        ELSE IF Len(num) > 5 \/ DecimalValue(num, 0) > 65535
        THEN [ok |-> FALSE, port |-> <<>>]
        ELSE IF text = <<>> \/ num = DefaultPort(scheme)
        THEN [ok |-> TRUE, port |-> <<>>]
        ELSE [ok |-> TRUE, port |-> num]

RECURSIVE RemoveDotSegments(_, _, _)
\* The segments of a path after "." and ".." are resolved: ".." removes
\* the segment before it, "." removes nothing, and either one, when it is
\* the last segment, leaves an empty segment (a trailing "/").
RemoveDotSegments(segs, i, out) ==
    IF i > Len(segs) THEN out
    ELSE LET last  == i = Len(segs)
             empty == IF last THEN << <<>> >> ELSE <<>>
         IN  IF segs[i] = <<".", ".">>
             THEN RemoveDotSegments(segs, i + 1,
                     Slice(out, 1, Len(out) - 1) \o empty)
             ELSE IF segs[i] = <<".">>
             THEN RemoveDotSegments(segs, i + 1, out \o empty)
             ELSE RemoveDotSegments(segs, i + 1, Append(out, segs[i]))

RECURSIVE JoinSegments(_)
\* "/" before each segment, the segments percent-encoded.
JoinSegments(segs) ==
    IF segs = <<>> THEN <<>>
    ELSE <<"/">> \o PathEncodeText(segs[1]) \o JoinSegments(Tail(segs))

\* parse_path_start and parse_path: the path of a URL that can be a base.
\* "/" separates the segments, and so does "\" for a special scheme; the
\* path of a special scheme is never empty; a path that does not start
\* with a separator gets a "/" before it.
HierPath(special, text) ==
    IF text = <<>> THEN (IF special THEN <<"/">> ELSE <<>>)
    ELSE JoinSegments(
            RemoveDotSegments(
               SplitKeep(IF text[1] \in (IF special THEN {"/", "\\"} ELSE {"/"})
                         THEN Tail(text) ELSE text,
                         IF special THEN {"/", "\\"} ELSE {"/"}),
               1, <<>>))

\* The URL of a scheme, an authority and what follows them, the fragment
\* starting at position fPos of tail and the query at qPos: each is
\* percent-encoded with its set.  opaque: the path of a URL that cannot be
\* a base is kept as written.
UrlPartsAt(scheme, special, slashes, hst, port, opaque, tail, fPos, qPos) ==
    [scheme   |-> scheme,
     slashes  |-> slashes,
     host     |-> hst,
     port     |-> port,
     path     |-> IF opaque THEN Slice(tail, 1, qPos - 1)
                  ELSE HierPath(special, Slice(tail, 1, qPos - 1)),
     query    |-> IF qPos < fPos
                  THEN Some(QueryEncodeText(Slice(tail, qPos + 1, fPos - 1)))
                  ELSE None,
     fragment |-> IF fPos <= Len(tail)
                  THEN Some(QueryEncodeText(Slice(tail, fPos + 1, Len(tail))))
                  ELSE None]

\* The path runs up to the first "?" or "#", the query from the first "?"
\* to the first "#", the fragment from the first "#" on.
UrlParts(scheme, special, slashes, hst, port, opaque, tail) ==
    UrlPartsAt(scheme, special, slashes, hst, port, opaque, tail,
               IndexOfAny(tail, {"#"}, 1), IndexOfAny(tail, {"?", "#"}, 1))

\* The URL whose host h and port p were read, the port up to position
\* pEnd of after.
UrlAfterPort(scheme, special, after, pEnd, h, p) ==
    IF ~p.ok THEN UrlError("InvalidPort")
    ELSE [ok  |-> TRUE,
          url |-> UrlParts(scheme, special, TRUE, h, p.port, FALSE,
                           Slice(after, pEnd, Len(after))),
          err |-> ""]

\* parse_host_and_port, then the rest: the host h was read up to position
\* hEnd of after.  A ":" there starts the port, which ends at the next
\* "/", "\", "?" or "#".
UrlAfterHost(scheme, special, after, hEnd, h) ==
    IF ~h.ok THEN UrlError(h.err)
    ELSE IF hEnd <= Len(after) /\ after[hEnd] = ":"
    THEN UrlAfterPort(scheme, special, after,
                      IndexOfAny(after, {"/", "\\", "?", "#"}, hEnd + 1), h.host,
                      ParsePort(scheme,
                                Slice(after, hEnd + 1,
                                      IndexOfAny(after, {"/", "\\", "?", "#"},
                                                 hEnd + 1) - 1)))
    ELSE UrlAfterPort(scheme, special, after, hEnd, h.host,
                      [ok |-> TRUE, port |-> <<>>])

\* The host of the text raw.
ParseHost(special, raw) ==
    IF special THEN SpecialHost(raw) ELSE OpaqueHost(raw)

\* The text after the slashes, whose host ends before position hEnd.  An
\* empty host is refused for a special scheme and before a ":".
UrlWithHostEnd(scheme, special, after, hEnd) ==
    IF hEnd = 1 /\ (special \/ (hEnd <= Len(after) /\ after[hEnd] = ":"))
    THEN UrlError("EmptyHost")
    ELSE UrlAfterHost(scheme, special, after, hEnd,
                      ParseHost(special, Slice(after, 1, hEnd - 1)))

\* parse_host: the host ends at ":", "/", "?" or "#", and at "\" for a
\* special scheme.
UrlAfterSlashes(scheme, special, after) ==
    UrlWithHostEnd(scheme, special, after,
                   IndexOfAny(after,
                              IF special THEN {":", "/", "?", "#", "\\"}
                              ELSE {":", "/", "?", "#"}, 1))

\* What follows the scheme and its ":".  After a special scheme every "/"
\* and "\" before the host is skipped; after any other scheme "//" starts
\* an authority, a single "/" a path without a host, and anything else a
\* path that is kept as written.
UrlAfterScheme(scheme, rest) ==
    IF scheme \in SpecialSchemes
       \/ (Len(rest) >= 2 /\ rest[1] = "/" /\ rest[2] = "/")
    THEN UrlAfterSlashes(scheme, scheme \in SpecialSchemes,
                         Slice(rest,
                               IF scheme \in SpecialSchemes
                               THEN SkipSlashes(rest, 1) ELSE 3,
                               Len(rest)))
    ELSE [ok  |-> TRUE,
          url |-> UrlParts(scheme, FALSE, FALSE, <<>>, <<>>,
                           rest = <<>> \/ rest[1] # "/", rest),
          err |-> ""]

\* parse_with_scheme: the input without its leading and trailing spaces,
\* whose scheme, which starts with a letter and is lower-cased, ends
\* before position k, where a ":" must follow.
UrlWithScheme(t, k) ==
    IF k = 1 \/ k > Len(t) \/ t[k] # ":" \/ ~IsSchemeStart(t[1])
    THEN UrlError("RelativeUrlWithoutBase")
    ELSE UrlAfterScheme(Concat(LowerText(Slice(t, 1, k - 1))),
                        Slice(t, k + 1, Len(t)))

\* The trimmed input.
UrlOfTrimmed(t) == UrlWithScheme(t, SchemeEnd(t, 1))

\* Url::parse(s): [ok, url, err].
UrlParse(s) == UrlOfTrimmed(Trim(Squeeze(s)))

\* Url::has_host: an empty host is no host.
has_host(u) == u.host # <<>>

RECURSIVE DigitsText(_)
DigitsText(ds) ==
    IF ds = <<>> THEN <<>> ELSE <<ToString(ds[1])>> \o DigitsText(Tail(ds))

\* impl Display for Url: the serialisation used by format!("{}...", self.host()).
UrlDisplay(u) ==
    <<u.scheme, ":">>
      \o (IF u.slashes THEN <<"/", "/">> \o u.host ELSE <<>>)
      \o (IF u.port # <<>> THEN <<":">> \o DigitsText(u.port) ELSE <<>>)
      \o u.path
      \o (IF IsSome(u.query) THEN <<"?">> \o u.query[1] ELSE <<>>)
      \o (IF IsSome(u.fragment) THEN <<"#">> \o u.fragment[1] ELSE <<>>)

RECURSIVE ExtendQuery(_, _)
\* url.query_pairs_mut() with the serialiser writing into it: the pairs,
\* form-encoded, extend the query of the URL, separated by "&".
ExtendQuery(q, pairs) ==
    IF pairs = <<>> THEN q
    ELSE ExtendQuery(
            (IF q = <<>> THEN <<>> ELSE q \o <<"&">>)
              \o <<FormEncode(pairs[1][1]), "=", FormEncode(pairs[1][2])>>,
            Tail(pairs))

\* RequestBuilder::query(request): the pairs the value serialises to are
\* appended to the query (an absent query starts empty); a query that is
\* empty afterwards is removed from the URL.
AppendQueryPairs(u, pairs) ==
    LET q == ExtendQuery(IF IsSome(u.query) THEN u.query[1] ELSE <<>>, pairs)
    IN  [u EXCEPT !.query = IF q = <<>> THEN None ELSE Some(q)]

\* RequestBuilder::query(&[(k, v)])
AppendQueryPair(u, k, v) == AppendQueryPairs(u, << <<k, v>> >>)

\* Url::query_pairs(): the (name, value) pairs of the query string, decoded.
QueryPairs(u) ==
    IF ~IsSome(u.query) THEN <<>>
    ELSE LET parts == Split(u.query[1], "&")
         IN  [i \in 1..Len(parts) |->
                LET e == IndexOfAny(parts[i], {"="}, 1)
                IN  <<FormDecodeText(Slice(parts[i], 1, e - 1)),
                      FormDecodeText(Slice(parts[i], e + 1, Len(parts[i])))>>]

--------------------------------------------------------------------------
(* reqwest::header::HeaderMap: a function from (lower-case) header names   *)
(* to values.                                                              *)

EmptyHeaders == [n \in {} |-> ""]

\* HeaderMap::insert(name, value): replaces the value of an existing name.
HeaderInsert(h, name, value) ==
    [n \in DOMAIN h \cup {name} |-> IF n = name THEN value ELSE h[n]]

\* The four headers Client::new gives the transport as default_headers.
DefaultHeaders ==
    HeaderInsert(
      HeaderInsert(
        HeaderInsert(
          HeaderInsert(EmptyHeaders, "user-agent", "rs_clob_client"),
          "accept", "*/*"),
        "connection", "keep-alive"),
      "content-type", "application/json")

\* reqwest::Client::execute with default_headers configured: each default
\* header whose name the request does not already carry is inserted into
\* the request before it is written to the wire.
WireHeaders(defaults, h) ==
    [n \in DOMAIN defaults \cup DOMAIN h |->
        IF n \in DOMAIN h THEN h[n] ELSE defaults[n]]

\* A plausible slip: the override merged over the headers the request
\* already carries instead of replacing them.
ApplyOverrideMerging(built, override) ==
    IF IsSome(override) THEN WireHeaders(built, override[1]) ELSE built

\* if let Some(h) = headers { *request.headers_mut() = h; }
ApplyOverride(built, override) ==
    IF IsSome(override) THEN override[1] ELSE built

--------------------------------------------------------------------------
(* serde_json::from_slice::<Option<i32>>                                    *)

JsonWhitespace == {" "}

RECURSIVE SkipWhitespace(_, _)
SkipWhitespace(s, i) ==
    IF i <= Len(s) /\ s[i] \in JsonWhitespace THEN SkipWhitespace(s, i + 1) ELSE i

RECURSIVE SkipDigits(_, _)
\* Position of the first lexeme at or after i that is not made of digits.
SkipDigits(s, i) ==
    IF i <= Len(s) /\ s[i] \in Numerals THEN SkipDigits(s, i + 1) ELSE i

RECURSIVE LeqDigits(_, _)
\* Of two numerals of the same length, the first is at most the second.
LeqDigits(a, b) ==
    IF a = <<>> THEN TRUE
    ELSE IF a[1] # b[1] THEN a[1] < b[1]
    ELSE LeqDigits(Tail(a), Tail(b))

\* The digits of i32::MAX and of u64::MAX.
I32MaxDigits == <<2, 1, 4, 7, 4, 8, 3, 6, 4, 7>>
U64MaxDigits == <<1, 8, 4, 4, 6, 7, 4, 4, 0, 7, 3, 7, 0, 9, 5, 5, 1, 6, 1, 5>>

\* The numeral ds (no leading zero) is at most the numeral max.
FitsDigits(ds, max) ==
    \/ Len(ds) < Len(max)
    \/ Len(ds) = Len(max) /\ LeqDigits(ds, max)

JsonBad(e) == [ok |-> FALSE, value |-> None, err |-> e]

\* Deserializer::end: only whitespace may follow the value.
JsonEnd(value, tail) ==
    IF SkipWhitespace(tail, 1) <= Len(tail) THEN JsonBad("TrailingCharacters")
    ELSE [ok |-> TRUE, value |-> value, err |-> ""]

\* The number that starts rest: the numerals that follow one another are
\* one number.  A leading zero before a digit is invalid.  A "." after the
\* integer starts a fraction, which needs a digit; a number with a fraction
\* is a floating point number, which is not an i32.  An integer that does
\* not fit the u64 the parser reads it into is read as a floating point
\* number too; one that does not fit i32 is an invalid value.
JsonNumber(rest) ==
    LET n    == SkipDigits(rest, 1) - 1
        ds   == FlattenDigits(Slice(rest, 1, n))
        frac == SkipDigits(rest, n + 2) - (n + 2)
    IN  IF Len(ds) >= 2 /\ ds[1] = 0 THEN JsonBad("InvalidNumber")
        ELSE IF n < Len(rest) /\ rest[n + 1] = "."
        THEN IF frac > 0
             THEN JsonBad("invalid type: floating point, expected i32")
             ELSE IF n + 1 = Len(rest) THEN JsonBad("EofWhileParsingValue")
             ELSE JsonBad("InvalidNumber")
        ELSE IF ~FitsDigits(ds, U64MaxDigits)
        THEN JsonBad("invalid type: floating point, expected i32")
        ELSE IF ~FitsDigits(ds, I32MaxDigits)
        THEN JsonBad("invalid value: integer " \o Concat(Slice(rest, 1, n))
                       \o ", expected i32")
        ELSE JsonEnd(Some(DecimalValue(ds, 0)), Slice(rest, n + 1, Len(rest)))

\* Words that start like true or false and are neither.
NotAnIdent == {"tags", "teams", "ftp"}

\* Words that start with the letter l.
StartWithL == {"limit"}

\* [ok, value, err]: leading whitespace is skipped; the literal null is
\* None, a number is Some(n); anything else, an empty body, or anything but
\* whitespace after the value is an error.  The first character decides
\* what is parsed: n a null, a digit a number, t or f a boolean (which is
\* not a number), "{" a map (which is not a number either).
ParseJsonOptionOf(rest) ==
    IF rest = <<>> THEN JsonBad("EofWhileParsingValue")
    ELSE CASE rest[1] = "null" -> JsonEnd(None, Tail(rest))
           [] rest[1] = "nul" ->
                IF Len(rest) = 1 THEN JsonBad("EofWhileParsingValue")
                ELSE IF rest[2] \in StartWithL
                THEN JsonBad("TrailingCharacters")
                ELSE JsonBad("ExpectedSomeIdent")
           [] rest[1] \in Numerals -> JsonNumber(rest)
           [] rest[1] = "{" -> JsonBad("invalid type: map, expected i32")
           [] rest[1] = "true" ->
                JsonBad("invalid type: boolean true, expected i32")
           [] rest[1] = "false" ->
                JsonBad("invalid type: boolean false, expected i32")
           [] rest[1] = "f" ->
                IF rest = <<"f">> \/ rest = <<"f", "a">>
                THEN JsonBad("EofWhileParsingValue")
                ELSE JsonBad("ExpectedSomeIdent")
           [] rest[1] \in NotAnIdent -> JsonBad("ExpectedSomeIdent")
           [] OTHER -> JsonBad("ExpectedValue")

ParseJsonOption(body) ==
    ParseJsonOptionOf(Slice(Squeeze(body), SkipWhitespace(Squeeze(body), 1),
                            Len(Squeeze(body))))

--------------------------------------------------------------------------
(* crate::Result<T> and crate::error::Error                                *)

Pending == [kind |-> "Pending", value |-> None, code |-> 0, method |-> None,
            path |-> None, message |-> <<>>, cause |-> ""]

Ok(v) == [Pending EXCEPT !.kind = "Ok", !.value = Some(v)]

\* Error::status(status_code, method, path, message)
StatusError(code, method, path, message) ==
    [Pending EXCEPT !.kind = "Status", !.code = code, !.method = Some(method),
                    !.path = Some(path), !.message = message]

\* The Decode kind: the deserialization cause, the method and the path,
\* each of the last two present when the conversion is given it.
DecodeError(cause, method, path) ==
    [Pending EXCEPT !.kind = "Decode", !.cause = cause, !.method = method,
                    !.path = path]

\* The Transport kind, wrapping the underlying cause.
TransportError(cause) == [Pending EXCEPT !.kind = "Transport", !.cause = cause]

\* The Configuration kind.
ConfigurationError(cause) ==
    [Pending EXCEPT !.kind = "Configuration", !.cause = cause]

\* reqwest::Error::is_decode
is_decode(cause) == cause = "decode"

\* The conversion of a reqwest::Error into the typed error: a body that
\* did not deserialize is a Decode error, any other failure of the
\* transport library a Transport error.
FromReqwestError(cause, method, path) ==
    IF is_decode(cause) THEN DecodeError(cause, method, path)
    ELSE TransportError(cause)

\* The ? operator on a reqwest::Error (lines 36, 71, 92 and the build()?
\* of the accessors): the conversion is handed the error alone.  The
\* locals method and path of lines 57-58 are not given to it.
Propagate(cause) == FromReqwestError(cause, None, None)

\* The ? operator on a url::ParseError (line 39).
FromUrlParseError(cause) == ConfigurationError(cause)

NOT_FOUND == 404

NotFoundMessage == <<"Unable to find requested resource">>

\* A plausible slip: 2xx taken to be "below 400".
is_success_below_400(code) == 200 <= code /\ code < 400

\* StatusCode::is_success
is_success(code) == 200 <= code /\ code < 300

--------------------------------------------------------------------------
(* Inputs                                                                  *)

\* Host strings handed to Client::new: well-formed ones (bare, with a
\* path prefix, with a query, with a fragment, with a port, upper-case
\* scheme, extra slashes, a scheme the transport does not speak, with and
\* without a host, a numeric host with a leading space and a brace in the
\* path) and malformed ones (empty, relative, no host, a host that is only
\* a space, a host that is an escaped escape).
HostStrings ==
    { <<"https", ":", "/", "/", "h">>,
      <<"https", ":", "/", "/", "/", "h">>,
      <<"h", ":", "/", "/", "x">>,
      <<"h", ":", "/", "/", "/", "x">>,
      <<"h", ":", "x">>,
      <<" ", "https", ":", "/", "/", "42", "/", "{">>,
      <<"https", ":", "/", "/", " ">>,
      <<"https", ":", "/", "/", "%2520">>,
      <<"https", ":", "/", "/", "h", "/">>,
      <<"https", ":", "/", "/", "h", ":", "80", "80">>,
      <<"HTTPS", ":", "/", "/", "h", "/", "api", "/">>,
      <<"https", ":", "/", "/", "h", "/", "api">>,
      <<"https", ":", "/", "/", "h", "/", "?", "k", "=", "v">>,
      <<"https", ":", "/", "/", "h", "/", "#", "f">>,
      <<>>,
      <<"h", "/", "api">>,
      <<"https", ":", "/", "/">> }

Ids == {7, 42}

Slugs ==
    { <<"politics">>, <<"a", "?", "b">>, <<"x", "#", "y">>, <<"a", " ", "b">>,
      <<".", ".">>, <<"a", "\\", "b">> }

IncludeOpts == {None, Some(TRUE), Some(FALSE)}

\* What a filter object (ListTeamsRequest, TagsRequest, RelatedTagsBy*Request)
\* serialises to: the (name, value) pairs of the fields that are present.
FilterSlugs == { <<"politics">> }

Filters == { <<>>, << <<"limit", "7">>, <<"offset", "0">> >> }

Methods == {"GET", "POST"}

\* Resources the prepared requests of the pipeline name.
RequestSegments == { <<"sports">>, <<"tags", "/", "7">> }

BuiltHeaderSets ==
    { EmptyHeaders, HeaderInsert(EmptyHeaders, "x-request-id", "r1") }

Overrides ==
    { None,
      Some(EmptyHeaders),
      Some(HeaderInsert(EmptyHeaders, "accept", "text/plain")),
      Some(HeaderInsert(EmptyHeaders, "x-auth", "k")) }

Statuses == {199, 200, 204, 299, 300, 404, 500}

\* Response bodies as the transport delivers them: None is a body whose
\* read fails, Some(text) a body read in full.
Bodies ==
    { None,
      Some(<<>>),
      Some(<<"null">>),
      Some(<<" ", "null", " ">>),
      Some(<<"7">>),
      Some(<<"42", " ">>),
      Some(<<"7", "0">>),
      Some(<<"0", "7">>),
      Some(<<"7", ".", "0">>),
      Some(<<"null", "7">>),
      Some(<<"nul">>),
      Some(<<"{">>) }

\* The calls of the pipeline the model follows.
PipelineCalls == {1}

--------------------------------------------------------------------------
(* Client::new and Client::host                                            *)

\* Client::new(host): the transport is built first (its failure returns
\* through ?), then the host is parsed (its failure returns through ?).
\* builderOk: ReqwestClient::builder()...build() returned Ok.
NewOutcome(host, builderOk) ==
    IF ~builderOk
    THEN [result |-> Propagate("builder"), client |-> None]
    ELSE LET p == UrlParse(host)
         IN  IF ~p.ok
             THEN [result |-> FromUrlParseError(p.err), client |-> None]
             ELSE [result |-> [Pending EXCEPT !.kind = "Ok"],
                   client |-> Some([host |-> p.url, defaults |-> DefaultHeaders])]

\* Client::host(&self)
host(cl) == cl.host

new(h, builderOk) ==
    /\ newResult.kind = "Pending"
    /\ ctor' = "new"
    /\ newArg' = Some(h)
    /\ transport' = IF builderOk THEN "built" ELSE "failed"
    /\ newResult' = NewOutcome(h, builderOk).result
    /\ client' = NewOutcome(h, builderOk).client
    /\ UNCHANGED calls

DefaultHost ==
    <<"https", ":", "/", "/", "gamma-api", ".", "polymarket", ".", "com">>

\* .expect("Client with default endpoint should succeed"): the panic an
\* Err of Client::new becomes.
Panic(e) ==
    [Pending EXCEPT !.kind = "Panic", !.cause = e.cause,
                    !.message = <<"Client with default endpoint should succeed">>]

\* impl Default for Client: Client::new on the production host; an error
\* of new is a panic, not a returned value.
default(builderOk) ==
    /\ newResult.kind = "Pending"
    /\ ctor' = "default"
    /\ newArg' = Some(DefaultHost)
    /\ transport' = IF builderOk THEN "built" ELSE "failed"
    /\ LET o == NewOutcome(DefaultHost, builderOk)
       IN  /\ newResult' = IF o.result.kind = "Ok" THEN o.result
                            ELSE Panic(o.result)
           /\ client' = o.client
    /\ UNCHANGED calls

--------------------------------------------------------------------------
(* Client::request: the pipeline                                           *)

Idle == [pc |-> "idle", api |-> "", id |-> 0, slug |-> <<>>, include |-> None,
         filter |-> <<>>, entered |-> FALSE,
         method |-> "", url |-> NoUrl, built |-> EmptyHeaders,
         override |-> None, headers |-> EmptyHeaders, path |-> <<>>,
         sent |-> None, dispatches |-> 0, status |-> 0,
         bodyArrived |-> FALSE, body |-> None, result |-> Pending]

\* The schemes the transport dispatches; execute refuses a request for any
\* other scheme before anything is sent.
TransportSchemes == {"http", "https"}

\* Lines 57-71, up to the await of execute: the locals method and path are
\* taken from the request and the override (if any) replaces the request's
\* headers.  Then execute either refuses the URL's scheme, and its error
\* returns through ? with nothing dispatched, or adds the transport's
\* default headers and dispatches the request.
RequestStart(rec, cl, method, url, built, override) ==
    LET loc == [rec EXCEPT !.entered = TRUE,
                          !.method = method,
                          !.url = url,
                          !.built = built,
                          !.override = override,
                          !.path = url.path,
                          !.headers = ApplyOverride(built, override)]
    IN  IF url.scheme \notin TransportSchemes
        THEN [loc EXCEPT !.pc = "done", !.result = Propagate("builder")]
        ELSE [loc EXCEPT !.pc = "execute",
                        !.sent = Some(WireHeaders(cl.defaults, loc.headers)),
                        !.dispatches = rec.dispatches + 1]

\* build()? failing in an accessor: the error returns before the pipeline.
BuildFailed(rec) ==
    [rec EXCEPT !.pc = "done", !.result = Propagate("builder")]

\* RequestBuilder over a URL string (IntoUrl): the string must parse and
\* the URL must have a host, else build() fails.
IntoUrl(str) ==
    LET p == UrlParse(str)
    IN  IF p.ok /\ ~has_host(p.url) THEN UrlError("UrlBadScheme") ELSE p

\* The pipeline called on a prepared request: a method, the URL of a
\* resource under the host, headers set on the descriptor, and an optional
\* header override.
request(c, method, segment, built, override) ==
    /\ IsSome(client)
    /\ calls[c].pc = "idle"
    /\ LET p == IntoUrl(UrlDisplay(host(client[1])) \o segment)
       IN  /\ p.ok
           /\ calls' = [calls EXCEPT ![c] =
                 RequestStart([@ EXCEPT !.api = "request"], client[1],
                              method, p.url, built, override)]
    /\ UNCHANGED <<ctor, newArg, transport, newResult, client>>

BoolText(b) == IF b THEN "true" ELSE "false"

\* A builder that always sends the flag, false when it is absent.
WithIncludeTemplateAlways(url, include) ==
    AppendQueryPair(url, "include_template",
                    BoolText(IF IsSome(include) THEN include[1] ELSE FALSE))

\* if let Some(include) = include_template { request.query(&[("include_template", include)]) }
WithIncludeTemplate(url, include) ==
    IF IsSome(include)
    THEN AppendQueryPair(url, "include_template", BoolText(include[1]))
    ELSE url

\* format!("{}tags/{}", self.host(), id), parsed by the request builder.
TagByIdUrl(h, id) == IntoUrl(UrlDisplay(h) \o <<"tags", "/", ToString(id)>>)

\* format!("{}tags/slug/{}", self.host(), slug), parsed by the request builder.
TagBySlugUrl(h, slug) == IntoUrl(UrlDisplay(h) \o <<"tags", "/", "slug", "/">> \o slug)

tag_by_id(c, id, include) ==
    /\ IsSome(client)
    /\ calls[c].pc = "idle"
    /\ LET p   == TagByIdUrl(host(client[1]), id)
           rec == [calls[c] EXCEPT !.api = "tag_by_id", !.id = id,
                                   !.include = include]
       IN  calls' = [calls EXCEPT ![c] =
              IF p.ok
              THEN RequestStart(rec, client[1], "GET",
                                WithIncludeTemplate(p.url, include),
                                EmptyHeaders, None)
              ELSE BuildFailed(rec)]
    /\ UNCHANGED <<ctor, newArg, transport, newResult, client>>

tag_by_slug(c, slug, include) ==
    /\ IsSome(client)
    /\ calls[c].pc = "idle"
    /\ LET p   == TagBySlugUrl(host(client[1]), slug)
           rec == [calls[c] EXCEPT !.api = "tag_by_slug", !.slug = slug,
                                   !.include = include]
       IN  calls' = [calls EXCEPT ![c] =
              IF p.ok
              THEN RequestStart(rec, client[1], "GET",
                                WithIncludeTemplate(p.url, include),
                                EmptyHeaders, None)
              ELSE BuildFailed(rec)]
    /\ UNCHANGED <<ctor, newArg, transport, newResult, client>>

\* The request of an accessor whose URL is {host} followed by a resource
\* segment, handed to the pipeline with no override.
PlainGet(rec, cl, segment) ==
    LET p == IntoUrl(UrlDisplay(host(cl)) \o segment)
    IN  IF p.ok
        THEN RequestStart(rec, cl, "GET", p.url, EmptyHeaders, None)
        ELSE BuildFailed(rec)

\* The same with .query(request): the filter's pairs as the query.
FilteredGet(rec, cl, segment, filter) ==
    LET p == IntoUrl(UrlDisplay(host(cl)) \o segment)
    IN  IF p.ok
        THEN RequestStart([rec EXCEPT !.filter = filter], cl, "GET",
                          AppendQueryPairs(p.url, filter), EmptyHeaders, None)
        ELSE BuildFailed([rec EXCEPT !.filter = filter])

teams(c, filter) ==
    /\ IsSome(client)
    /\ calls[c].pc = "idle"
    /\ calls' = [calls EXCEPT ![c] =
          FilteredGet([@ EXCEPT !.api = "teams"], client[1], <<"teams">>, filter)]
    /\ UNCHANGED <<ctor, newArg, transport, newResult, client>>

sports(c) ==
    /\ IsSome(client)
    /\ calls[c].pc = "idle"
    /\ calls' = [calls EXCEPT ![c] =
          PlainGet([@ EXCEPT !.api = "sports"], client[1], <<"sports">>)]
    /\ UNCHANGED <<ctor, newArg, transport, newResult, client>>

sports_market_types(c) ==
    /\ IsSome(client)
    /\ calls[c].pc = "idle"
    /\ calls' = [calls EXCEPT ![c] =
          PlainGet([@ EXCEPT !.api = "sports_market_types"], client[1],
                   <<"sports", "/", "market-types">>)]
    /\ UNCHANGED <<ctor, newArg, transport, newResult, client>>

tags(c, filter) ==
    /\ IsSome(client)
    /\ calls[c].pc = "idle"
    /\ calls' = [calls EXCEPT ![c] =
          FilteredGet([@ EXCEPT !.api = "tags"], client[1], <<"tags">>, filter)]
    /\ UNCHANGED <<ctor, newArg, transport, newResult, client>>

tag_relationships_by_id(c, id, filter) ==
    /\ IsSome(client)
    /\ calls[c].pc = "idle"
    /\ calls' = [calls EXCEPT ![c] =
          FilteredGet([@ EXCEPT !.api = "tag_relationships_by_id", !.id = id],
                      client[1],
                      <<"tags", "/", ToString(id), "/", "related-tags">>, filter)]
    /\ UNCHANGED <<ctor, newArg, transport, newResult, client>>

tag_relationships_by_slug(c, slug, filter) ==
    /\ IsSome(client)
    /\ calls[c].pc = "idle"
    /\ calls' = [calls EXCEPT ![c] =
          FilteredGet([@ EXCEPT !.api = "tag_relationships_by_slug", !.slug = slug],
                      client[1],
                      <<"tags", "/", "slug", "/">> \o slug \o <<"/", "related-tags">>,
                      filter)]
    /\ UNCHANGED <<ctor, newArg, transport, newResult, client>>

related_tags_by_id(c, id, filter) ==
    /\ IsSome(client)
    /\ calls[c].pc = "idle"
    /\ calls' = [calls EXCEPT ![c] =
          FilteredGet([@ EXCEPT !.api = "related_tags_by_id", !.id = id],
                      client[1],
                      <<"tags", "/", ToString(id), "/", "related-tags", "/", "tags">>,
                      filter)]
    /\ UNCHANGED <<ctor, newArg, transport, newResult, client>>

related_tags_by_slug(c, slug, filter) ==
    /\ IsSome(client)
    /\ calls[c].pc = "idle"
    /\ calls' = [calls EXCEPT ![c] =
          FilteredGet([@ EXCEPT !.api = "related_tags_by_slug", !.slug = slug],
                      client[1],
                      <<"tags", "/", "slug", "/">> \o slug
                        \o <<"/", "related-tags", "/", "tags">>,
                      filter)]
    /\ UNCHANGED <<ctor, newArg, transport, newResult, client>>

\* A transport failure answered by dispatching the request again.
execute_err_retry(c) ==
    /\ calls[c].pc = "execute"
    /\ calls[c].dispatches < 3
    /\ calls' = [calls EXCEPT ![c].dispatches = @ + 1]
    /\ UNCHANGED <<ctor, newArg, transport, newResult, client>>

\* self.client.execute(request).await? with the dispatch failing (DNS,
\* connection, TLS, timeout).
execute_err(c) ==
    /\ calls[c].pc = "execute"
    /\ calls' = [calls EXCEPT ![c].pc = "done",
                              ![c].result = Propagate("connect")]
    /\ UNCHANGED <<ctor, newArg, transport, newResult, client>>

\* Body interpretation chosen whatever the status.
AfterStatusIgnoringStatus(status) == "json"

\* if !status_code.is_success() { read the text } else { read the JSON }
AfterStatus(status) == IF ~is_success(status) THEN "text" ELSE "json"

\* self.client.execute(request).await? with a response: its status is
\* classified and the matching read of the body is awaited.
execute_ok(c, status) ==
    /\ calls[c].pc = "execute"
    /\ calls' = [calls EXCEPT ![c].pc = AfterStatus(status),
                              ![c].status = status]
    /\ UNCHANGED <<ctor, newArg, transport, newResult, client>>

\* response.text().await?: a failed read propagated instead of defaulted.
TextOutcomePropagating(status, method, path, body) ==
    IF IsSome(body) THEN StatusError(status, method, path, body[1])
    ELSE Propagate("body")

\* let message = response.text().await.unwrap_or_default();
\* return Err(Error::status(status_code, method, path, message));
TextOutcome(status, method, path, body) ==
    StatusError(status, method, path, IF IsSome(body) THEN body[1] ELSE <<>>)

text_done(c, body) ==
    /\ calls[c].pc = "text"
    /\ calls' = [calls EXCEPT
          ![c].pc = "done",
          ![c].bodyArrived = TRUE,
          ![c].body = body,
          ![c].result = TextOutcome(calls[c].status, calls[c].method,
                                    calls[c].path, body)]
    /\ UNCHANGED <<ctor, newArg, transport, newResult, client>>

\* unwrap_or_default() on the parsed Option: null becomes the default value.
JsonOutcomeDefaulting(method, path, body) ==
    IF ~IsSome(body) THEN Propagate("body")
    ELSE LET p == ParseJsonOption(body[1])
         IN  IF ~p.ok THEN Propagate("decode")
             ELSE IF IsSome(p.value) THEN Ok(p.value[1])
             ELSE Ok(0)

\* response.json::<Option<Response>>().await?: the body is read (a failed
\* read returns through ?), parsed (a parse failure returns through ?);
\* Some(response) is returned, None becomes the 404 Status error.
JsonOutcome(method, path, body) ==
    IF ~IsSome(body) THEN Propagate("body")
    ELSE LET p == ParseJsonOption(body[1])
         IN  IF ~p.ok THEN Propagate("decode")
             ELSE IF IsSome(p.value) THEN Ok(p.value[1])
             ELSE StatusError(NOT_FOUND, method, path, NotFoundMessage)

json_done(c, body) ==
    /\ calls[c].pc = "json"
    /\ calls' = [calls EXCEPT
          ![c].pc = "done",
          ![c].bodyArrived = TRUE,
          ![c].body = body,
          ![c].result = JsonOutcome(calls[c].method, calls[c].path, body)]
    /\ UNCHANGED <<ctor, newArg, transport, newResult, client>>

--------------------------------------------------------------------------
(* Specification                                                           *)

Init ==
    /\ ctor = "none"
    /\ newArg = None
    /\ transport = "none"
    /\ newResult = Pending
    /\ client = None
    /\ calls = [c \in PipelineCalls |-> Idle]

\* One call at a time, over the full input sets.
Next ==
    \/ \E h \in HostStrings, b \in BOOLEAN : new(h, b)
    \/ \E b \in BOOLEAN : default(b)
    \/ \E c \in DOMAIN calls, f \in Filters : teams(c, f)
    \/ \E c \in DOMAIN calls : sports(c)
    \/ \E c \in DOMAIN calls : sports_market_types(c)
    \/ \E c \in DOMAIN calls, f \in Filters : tags(c, f)
    \/ \E c \in DOMAIN calls, id \in Ids, f \in Filters :
          tag_relationships_by_id(c, id, f)
    \/ \E c \in DOMAIN calls, sl \in FilterSlugs, f \in Filters :
          tag_relationships_by_slug(c, sl, f)
    \/ \E c \in DOMAIN calls, id \in Ids, f \in Filters :
          related_tags_by_id(c, id, f)
    \/ \E c \in DOMAIN calls, sl \in FilterSlugs, f \in Filters :
          related_tags_by_slug(c, sl, f)
    \/ \E c \in DOMAIN calls, m \in Methods, sg \in RequestSegments,
          bh \in BuiltHeaderSets, o \in Overrides : request(c, m, sg, bh, o)
    \/ \E c \in DOMAIN calls, id \in Ids, i \in IncludeOpts : tag_by_id(c, id, i)
    \/ \E c \in DOMAIN calls, s \in Slugs, i \in IncludeOpts : tag_by_slug(c, s, i)
    \/ \E c \in DOMAIN calls : execute_err(c)
    \/ \E c \in DOMAIN calls, st \in Statuses : execute_ok(c, st)
    \/ \E c \in DOMAIN calls, b \in Bodies : text_done(c, b)
    \/ \E c \in DOMAIN calls, b \in Bodies : json_done(c, b)

Spec == Init /\ [][Next]_vars

--------------------------------------------------------------------------
(* Vocabulary of the claims, stated without the model's own operators      *)

CallIds == DOMAIN calls

TwoXX(code) == code \in 200..299

\* The call received a response and the read of its body has ended.
Answered(c) == calls[c].pc = "done" /\ calls[c].bodyArrived

\* Body texts that are the JSON value null.
JsonNullTexts == { <<"null">>, <<" ", "null", " ">> }

\* Body texts that are a JSON encoding of the expected type, with the value.
JsonValueTexts ==
    { <<(<<"7">>), 7>>, <<(<<"42", " ">>), 42>>, <<(<<"7", "0">>), 70>> }

\* Body texts that are neither.
JsonGarbageTexts ==
    { <<>>, <<"null", "7">>, <<"nul">>, <<"{">>, <<"0", "7">>, <<"7", ".", "0">> }

\* The serialisation host() must have for each well-formed host string.
WellFormedHosts ==
    { <<(<<"https", ":", "/", "/", "h">>), (<<"https", ":", "/", "/", "h", "/">>)>>,
      <<(<<"https", ":", "/", "/", "h", "/">>),
        (<<"https", ":", "/", "/", "h", "/">>)>>,
      <<(<<"https", ":", "/", "/", "/", "h">>),
        (<<"https", ":", "/", "/", "h", "/">>)>>,
      <<(<<"h", ":", "/", "/", "x">>), (<<"h", ":", "/", "/", "x">>)>>,
      <<(<<"h", ":", "/", "/", "/", "x">>), (<<"h", ":", "/", "/", "/", "x">>)>>,
      <<(<<"h", ":", "x">>), (<<"h", ":", "x">>)>>,
      <<(<<" ", "https", ":", "/", "/", "42", "/", "{">>),
        (<<"https", ":", "/", "/", "0", ".", "0", ".", "0", ".", "42", "/", "%7B">>)>>,
      <<(<<"https", ":", "/", "/", "h", ":", "80", "80">>),
        (<<"https", ":", "/", "/", "h", ":", "8", "0", "8", "0", "/">>)>>,
      <<(<<"HTTPS", ":", "/", "/", "h", "/", "api", "/">>),
        (<<"https", ":", "/", "/", "h", "/", "api", "/">>)>>,
      <<(<<"https", ":", "/", "/", "h", "/", "api">>),
        (<<"https", ":", "/", "/", "h", "/", "api">>)>>,
      <<(<<"https", ":", "/", "/", "h", "/", "?", "k", "=", "v">>),
        (<<"https", ":", "/", "/", "h", "/", "?", "k", "=", "v">>)>>,
      <<(<<"https", ":", "/", "/", "h", "/", "#", "f">>),
        (<<"https", ":", "/", "/", "h", "/", "#", "f">>)>> }

MalformedHosts ==
    { <<>>, <<"h", "/", "api">>, <<"https", ":", "/", "/">>,
      <<"https", ":", "/", "/", " ">>, <<"https", ":", "/", "/", "%2520">> }

ConstructionHeaderNames == {"user-agent", "accept", "connection", "content-type"}

--------------------------------------------------------------------------
(* C1 *)

\* C1: a call whose response has a 2xx status and a body that is JSON null
\* fails with Status 404, the request's method and path, and the message
\* "Unable to find requested resource"; it never returns Ok.
C1_NullBodyIsNotFound ==
    \A c \in CallIds :
        (/\ Answered(c)
         /\ TwoXX(calls[c].status)
         /\ IsSome(calls[c].body)
         /\ calls[c].body[1] \in JsonNullTexts)
        => /\ calls[c].result.kind = "Status"
           /\ calls[c].result.code = 404
           /\ calls[c].result.method = Some(calls[c].method)
           /\ calls[c].result.path = Some(calls[c].url.path)
           /\ calls[c].result.message = <<"Unable to find requested resource">>
           /\ calls[c].result.value = None

C1_Witness ==
    \E c \in CallIds :
        /\ Answered(c)
        /\ calls[c].status = 204
        /\ calls[c].method = "POST"
        /\ calls[c].body = Some(<<" ", "null", " ">>)
        /\ calls[c].result.kind = "Status"
        /\ calls[c].result.code = 404

--------------------------------------------------------------------------
(* C2 *)

\* C2: a call whose response has a non-2xx status fails with a Status error
\* carrying the response's status code, the request's method and path and
\* the body text verbatim; an empty or unreadable body gives the empty
\* message, never a Transport or Decode error.
C2_NonSuccessIsStatusError ==
    \A c \in CallIds :
        (Answered(c) /\ ~TwoXX(calls[c].status))
        => /\ calls[c].result.kind = "Status"
           /\ calls[c].result.code = calls[c].status
           /\ calls[c].result.method = Some(calls[c].method)
           /\ calls[c].result.path = Some(calls[c].url.path)
           /\ calls[c].result.cause = ""
           /\ calls[c].result.message =
                 (IF IsSome(calls[c].body) THEN calls[c].body[1] ELSE <<>>)

C2_Witness ==
    \E c \in CallIds :
        /\ Answered(c)
        /\ calls[c].status = 500
        /\ calls[c].body = None
        /\ calls[c].result.kind = "Status"
        /\ calls[c].result.message = <<>>

--------------------------------------------------------------------------
(* C3 *)

UnparsableAnswer(c) ==
    /\ Answered(c)
    /\ TwoXX(calls[c].status)
    /\ IsSome(calls[c].body)
    /\ calls[c].body[1] \in JsonGarbageTexts

\* C3: a 2xx response whose body cannot be parsed fails with a Decode
\* error carrying the deserialization cause and the request's method and
\* path; never another kind, never a value.
C3_DecodeCarriesMethodAndPath ==
    \A c \in CallIds :
        UnparsableAnswer(c)
        => /\ calls[c].result.kind = "Decode"
           /\ calls[c].result.cause = "decode"
           /\ calls[c].result.value = None
           /\ calls[c].result.method = Some(calls[c].method)
           /\ calls[c].result.path = Some(calls[c].url.path)

--------------------------------------------------------------------------
(* C4 *)

ResultKinds == {"Ok", "Configuration", "Transport", "Decode", "Status"}

\* C4: a call is done exactly when it has its one outcome; Ok(v) is the
\* outcome only of a 2xx response whose body is an encoding of v, and v is
\* the value returned; every error outcome carries no value.
C4_OkOnlyFromSuccessfulBody ==
    \A c \in CallIds :
        /\ (calls[c].pc = "done") <=> (calls[c].result.kind \in ResultKinds)
        /\ calls[c].pc # "done" => calls[c].result = Pending
        /\ calls[c].result.kind = "Ok"
           => /\ Answered(c)
              /\ TwoXX(calls[c].status)
              /\ \E t \in JsonValueTexts :
                    /\ calls[c].body = Some(t[1])
                    /\ calls[c].result.value = Some(t[2])
              /\ calls[c].result.code = 0
              /\ calls[c].result.cause = ""
        /\ (calls[c].pc = "done" /\ calls[c].result.kind # "Ok")
           => calls[c].result.value = None
        /\ \A t \in JsonValueTexts :
              (Answered(c) /\ TwoXX(calls[c].status) /\ calls[c].body = Some(t[1]))
              => calls[c].result = Ok(t[2])

C4_Witness ==
    \E c \in CallIds :
        /\ Answered(c)
        /\ calls[c].status = 299
        /\ calls[c].body = Some(<<"42", " ">>)
        /\ calls[c].result.kind = "Ok"
        /\ calls[c].result.value = Some(42)

--------------------------------------------------------------------------
(* C5 *)

\* The call entered the pipeline: its request was handed to the transport.
Dispatched(c) == IsSome(calls[c].sent)

ConstructionHeaders ==
    ("user-agent" :> "rs_clob_client") @@ ("accept" :> "*/*")
      @@ ("connection" :> "keep-alive") @@ ("content-type" :> "application/json")

\* C5 as stated: with an override, the headers of the dispatched request
\* are exactly the override (no header configured at construction and no
\* header of the descriptor alongside it); without one, the request's
\* headers are left as built.
C5_DispatchedHeadersAreOverride ==
    \A c \in CallIds :
        Dispatched(c)
        => /\ IsSome(calls[c].override) => calls[c].sent = Some(calls[c].override[1])
           /\ ~IsSome(calls[c].override) => calls[c].headers = calls[c].built

\* C5 amended: with an override, the headers of the request handed to the
\* transport are exactly the override (no header of the descriptor
\* survives), and the transport then adds every header configured at
\* construction whose name the override does not carry; without an
\* override the request's headers are left as built.
C5_OverrideReplacesRequestHeaders ==
    \A c \in CallIds :
        Dispatched(c)
        => /\ IsSome(calls[c].override)
              => LET h == calls[c].override[1]
                     w == calls[c].sent[1]
                 IN  /\ calls[c].headers = h
                     /\ DOMAIN w = DOMAIN h \cup ConstructionHeaderNames
                     /\ \A n \in DOMAIN h : w[n] = h[n]
                     /\ \A n \in ConstructionHeaderNames \ DOMAIN h :
                           w[n] = ConstructionHeaders[n]
           /\ ~IsSome(calls[c].override) => calls[c].headers = calls[c].built

C5_Witness ==
    \E c \in CallIds :
        /\ Dispatched(c)
        /\ "x-request-id" \in DOMAIN calls[c].built
        /\ IsSome(calls[c].override)
        /\ "accept" \in DOMAIN calls[c].override[1]
        /\ calls[c].sent[1]["accept"] = "text/plain"
        /\ "x-request-id" \notin DOMAIN calls[c].sent[1]
        /\ "user-agent" \in DOMAIN calls[c].sent[1]

--------------------------------------------------------------------------
(* C6 *)

\* Client::new has returned.
Constructed == ctor = "new" /\ newResult.kind # "Pending"

\* C6: new succeeds for every well-formed host string, and host() is the
\* parsed URL; for every malformed one it fails with Configuration and no
\* Client; construction has no other failure cause and dispatches nothing.
C6_NewFailsOnlyOnMalformedHost ==
    Constructed
    => /\ \A w \in WellFormedHosts :
             newArg = Some(w[1])
             => /\ newResult.kind = "Ok"
                /\ IsSome(client)
                /\ UrlDisplay(host(client[1])) = w[2]
       /\ newArg[1] \in MalformedHosts
          => newResult.kind = "Configuration" /\ client = None
       /\ newResult.kind \in {"Ok", "Configuration"}
       /\ newResult.kind = "Ok" <=> IsSome(client)

--------------------------------------------------------------------------
(* C7 *)

\* C7: a call dispatches its request at most once; a call ended by a
\* failure of the dispatch ends with a Transport error, and every ended
\* call, whatever its error, has dispatched at most once.
C7_AtMostOneDispatch ==
    \A c \in CallIds :
        /\ calls[c].dispatches <= 1
        /\ (calls[c].pc = "done" /\ Dispatched(c) /\ calls[c].status = 0)
           => /\ calls[c].result.kind = "Transport"
              /\ calls[c].result.cause \in {"connect", "builder"}
              /\ calls[c].result.value = None
        /\ calls[c].pc \in {"execute", "text", "json"} => calls[c].dispatches = 1

C7_Witness ==
    \E c \in CallIds :
        /\ calls[c].pc = "done"
        /\ Dispatched(c)
        /\ calls[c].status = 0
        /\ calls[c].result.kind = "Transport"
        /\ calls[c].dispatches = 1

--------------------------------------------------------------------------
(* C9 *)

Range(s) == {s[i] : i \in DOMAIN s}

Accessor(c) == calls[c].api \in {"tag_by_id", "tag_by_slug"} /\ calls[c].pc # "idle"

\* The resource segment of the accessor's path template for the call.
Segment(c) ==
    IF calls[c].api = "tag_by_id"
    THEN <<"tags", "/", ToString(calls[c].id)>>
    ELSE <<"tags", "/", "slug", "/">> \o calls[c].slug

\* The text the accessor's path template gives for the call.
Target(c) == UrlDisplay(host(client[1])) \o Segment(c)

\* The request the accessor built was passed to the pipeline, as a GET for
\* the host followed by the segment, with no override, and with the
\* include_template parameter as the flag says.
AccessorRequestShape(c) ==
    /\ calls[c].entered
    /\ calls[c].method = "GET"
    /\ calls[c].override = None
    /\ calls[c].headers = EmptyHeaders
    /\ calls[c].url.path = host(client[1]).path \o Segment(c)
    /\ calls[c].path = calls[c].url.path
    /\ calls[c].include = None
       => /\ UrlDisplay(calls[c].url) = Target(c)
          /\ \A i \in DOMAIN QueryPairs(calls[c].url) :
                QueryPairs(calls[c].url)[i][1] # <<"include_template">>
    /\ IsSome(calls[c].include)
       => /\ UrlDisplay([calls[c].url EXCEPT !.query = None]) = Target(c)
          /\ QueryPairs(calls[c].url)
               = << <<(<<"include_template">>),
                      (<<IF calls[c].include[1] THEN "true" ELSE "false">>)>> >>

\* C9 as stated: tag_by_id and tag_by_slug build a GET request for the host
\* followed by tags/<id> (tags/slug/<slug>), whose query is exactly
\* include_template=<b> for Some(b) and has no include_template for None,
\* and pass it to the pipeline with no header override.
C9_TagRequestShape ==
    \A c \in CallIds : Accessor(c) => AccessorRequestShape(c)

\* The text has a segment (between "/"s or the ends) that is "." or "..".
HasDotSegment(s) ==
    \E i, j \in 1..Len(s) :
        /\ i <= j
        /\ j <= i + 1
        /\ \A k \in i..j : s[k] = "."
        /\ i = 1 \/ s[i - 1] = "/"
        /\ j = Len(s) \/ s[j + 1] = "/"

\* C9 amended: the same, for a host URL that has a host, a path (as every
\* http or https URL has) and neither a query string nor a fragment, and a
\* slug that has no "?", no "#", no character the URL parser strips,
\* escapes or rewrites in a path (a space, a brace, a backslash) and no
\* segment that is "." or "..".
C9_TagRequestShapeOnPlainHost ==
    \A c \in CallIds :
        (/\ Accessor(c)
         /\ host(client[1]).host # <<>>
         /\ host(client[1]).path # <<>>
         /\ ~IsSome(host(client[1]).query)
         /\ ~IsSome(host(client[1]).fragment)
         /\ Range(calls[c].slug) \cap {"?", "#", " ", "{", "\\"} = {}
         /\ ~HasDotSegment(calls[c].slug))
        => AccessorRequestShape(c)

C9_Witness ==
    \E c \in CallIds :
        /\ calls[c].api = "tag_by_id"
        /\ calls[c].id = 42
        /\ calls[c].include = Some(TRUE)
        /\ calls[c].entered
        /\ UrlDisplay(calls[c].url) =
             <<"https", ":", "/", "/", "h", "/", "tags", "/", "42", "?",
               "include_template", "=", "true">>

--------------------------------------------------------------------------
(* C10 *)

\* C10: the status is classified before the body is interpreted: a non-2xx
\* response whose body is JSON null or an encoding of the expected type is
\* never deserialized; it gives a Status error with the response's own
\* status code and the body as raw text, no value, no Decode error and no
\* synthesized "Unable to find requested resource".
C10_StatusBeforeBody ==
    \A c \in CallIds :
        /\ calls[c].pc = "json" => TwoXX(calls[c].status)
        /\ (/\ Answered(c)
            /\ ~TwoXX(calls[c].status)
            /\ IsSome(calls[c].body)
            /\ calls[c].body[1] \in
                 JsonNullTexts \cup {t[1] : t \in JsonValueTexts})
           => /\ calls[c].result.kind = "Status"
              /\ calls[c].result.code = calls[c].status
              /\ calls[c].result.message = calls[c].body[1]
              /\ calls[c].result.message # <<"Unable to find requested resource">>
              /\ calls[c].result.value = None

C10_Witness ==
    \E c \in CallIds :
        /\ Answered(c)
        /\ calls[c].status = 500
        /\ calls[c].body = Some(<<"null">>)
        /\ calls[c].result.kind = "Status"
        /\ calls[c].result.code = 500
        /\ calls[c].result.message = <<"null">>

==========================================================================
